---- MODULE Spec2Model ----
(***************************************************************************)
(* Model of file-scrapper-selenium.py: the TfL cycling-data scraper.       *)
(*                                                                         *)
(* A Python str is a sequence of one-character strings, so that the        *)
(* regular expressions, int() and the suffix test are computed character   *)
(* by character.  A dict of the link list is a record; a missing           *)
(* 'file_number' key and the value None are both written None.             *)
(***************************************************************************)
EXTENDS Integers, Sequences, FiniteSets, TLC

VARIABLES
    pc,              \* position of the running function
    fname,           \* extract_file_number: the argument filename
    fnum,            \* extract_file_number: the returned value
    anchors,         \* the <a> elements of the rendered page not yet visited
    driver,          \* the Chrome webdriver: "none", "acquired" or "released"
    csv_files,       \* the list built by get_all_filenames / given to the filter
    start_range,     \* main: start_range / filter_files_by_range: start_num
    end_range,       \* main: end_range / filter_files_by_range: end_num
    filtered_files,  \* the list returned by filter_files_by_range
    refiltered,      \* filter_files_by_range applied to filtered_files
    idx,             \* main: number of loop iterations of the download loop done
    successful,      \* main: counter
    failed,          \* main: counter
    dir_state,       \* the download directory: "absent", "present" or "blocked"
    fs,              \* files of the download directory: filename -> bytes
    http_log,        \* urls requested with requests.get, in order
    calls,           \* arguments of the calls of download_file, in order
    outcomes         \* what each call of download_file printed and returned,
                     \* and what the network and the disk did in that call

vars == << pc, fname, fnum, anchors, driver, csv_files, start_range, end_range,
           filtered_files, refiltered, idx, successful, failed, dir_state, fs,
           http_log, calls, outcomes >>

---------------------------------------------------------------------------
(* Bounds of the model *)

\* longest filename given to extract_file_number on its own
MaxLen == 6
\* longest list of records given to filter_files_by_range on its own
MaxRecords == 3
\* most <a> elements on the rendered page
MaxLinks == 3

\* characters of the filenames: digits, letters of both cases, others
Chars == {"0", "1", "9", "a", "Z", "-"}

---------------------------------------------------------------------------
(* Python values *)

None == << >>
Some(n) == << n >>

\* truth value of an Optional[int] in "if file_num and ...": None and 0 are false
Truthy(x) == x # None /\ x[1] # 0

Digits == {"0", "1", "2", "3", "4", "5", "6", "7", "8", "9"}

\* the character class [a-zA-Z]
Letters == {"a", "b", "c", "d", "e", "f", "g", "h", "i", "j", "k", "l", "m",
            "n", "o", "p", "q", "r", "s", "t", "u", "v", "w", "x", "y", "z",
            "A", "B", "C", "D", "E", "F", "G", "H", "I", "J", "K", "L", "M",
            "N", "O", "P", "Q", "R", "S", "T", "U", "V", "W", "X", "Y", "Z"}

DigitVal(c) ==
    CASE c = "0" -> 0 [] c = "1" -> 1 [] c = "2" -> 2 [] c = "3" -> 3
      [] c = "4" -> 4 [] c = "5" -> 5 [] c = "6" -> 6 [] c = "7" -> 7
      [] c = "8" -> 8 [] c = "9" -> 9

\* int(s) of a non-empty string of digits
RECURSIVE int(_)
int(s) ==
    IF Len(s) = 0 THEN 0
    ELSE int(SubSeq(s, 1, Len(s) - 1)) * 10 + DigitVal(s[Len(s)])

SetMax(S) == CHOOSE m \in S : \A n \in S : n <= m

\* re.search(r'^(\d+)[a-zA-Z]', s): group 1 of the match, or None.  \d+ is
\* greedy: of the prefixes of digits that a letter follows, the longest.
SearchLeading(s) ==
    LET ends == { j \in 1 .. (Len(s) - 1) :
                    /\ \A i \in 1 .. j : s[i] \in Digits
                    /\ s[j + 1] \in Letters }
    IN  IF ends = {} THEN None ELSE SubSeq(s, 1, SetMax(ends))

\* the end of the match of \d+ that starts at position i
RECURSIVE RunEnd(_, _)
RunEnd(s, i) ==
    IF i < Len(s) /\ s[i + 1] \in Digits THEN RunEnd(s, i + 1) ELSE i

\* re.findall(r'\d+', s), scanning from position i
RECURSIVE FindAllFrom(_, _)
FindAllFrom(s, i) ==
    IF i > Len(s) THEN << >>
    ELSE IF s[i] \notin Digits THEN FindAllFrom(s, i + 1)
    ELSE << SubSeq(s, i, RunEnd(s, i)) >> \o FindAllFrom(s, RunEnd(s, i) + 1)

FindAll(s) == FindAllFrom(s, 1)

\* the upper end of "1 <= num_int <= 1000"
MaxFileNumber == 1000

\* FirstReasonable with the test "1 <= num_int" alone
RECURSIVE FirstReasonable_NoUpper(_)
FirstReasonable_NoUpper(numbers) ==
    IF numbers = << >> THEN None
    ELSE IF 1 <= int(Head(numbers))
         THEN Some(int(Head(numbers)))
         ELSE FirstReasonable_NoUpper(Tail(numbers))

\* the loop "for num in numbers: ... if 1 <= num_int <= 1000: return num_int"
RECURSIVE FirstReasonable(_)
FirstReasonable(numbers) ==
    IF numbers = << >> THEN None
    ELSE LET num_int == int(Head(numbers))
         IN  IF 1 <= num_int /\ num_int <= MaxFileNumber
             THEN Some(num_int)
             ELSE FirstReasonable(Tail(numbers))

\* extract_file_number with pattern 1 left out
extract_file_number_Pattern2Only(filename) ==
    FirstReasonable(FindAll(filename))

extract_file_number(filename) ==
    LET match == SearchLeading(filename)
    IN  IF match # None
        THEN Some(int(match))
        ELSE FirstReasonable(FindAll(filename))

---------------------------------------------------------------------------
(* filter_files_by_range *)

\* href.endswith(".csv")
DotCsv == << ".", "c", "s", "v" >>

EndsWith(s, suffix) ==
    /\ Len(s) >= Len(suffix)
    /\ SubSeq(s, Len(s) - Len(suffix) + 1, Len(s)) = suffix

\* the dict appended by get_all_filenames: the url is the href, kept as its
\* directory part and its last segment; 'text' is never read afterwards
FileInfo(dir, filename) ==
    [filename |-> filename, url |-> << dir, filename >>, file_number |-> None]

\* FilterLoop with the test "file_num <= end_num" left out
RECURSIVE FilterLoop_NoUpper(_, _, _)
FilterLoop_NoUpper(files, start_num, end_num) ==
    IF files = << >> THEN << >>
    ELSE LET file_num == extract_file_number(Head(files).filename)
             rest     == FilterLoop_NoUpper(Tail(files), start_num, end_num)
         IN  IF Truthy(file_num) /\ start_num <= file_num[1]
             THEN << [Head(files) EXCEPT !.file_number = file_num] >> \o rest
             ELSE rest

\* the loop over csv_files: the dicts kept, each with 'file_number' set
RECURSIVE FilterLoop(_, _, _)
FilterLoop(files, start_num, end_num) ==
    IF files = << >> THEN << >>
    ELSE LET file_info == Head(files)
             file_num  == extract_file_number(file_info.filename)
             rest      == FilterLoop(Tail(files), start_num, end_num)
         IN  IF /\ Truthy(file_num)
                /\ start_num <= file_num[1]
                /\ file_num[1] <= end_num
             THEN << [file_info EXCEPT !.file_number = file_num] >> \o rest
             ELSE rest

\* the same loop as seen from the caller's list: the dicts are changed in place
MarkLoop(files, start_num, end_num) ==
    [ i \in 1 .. Len(files) |->
        LET file_num == extract_file_number(files[i].filename)
        IN  IF /\ Truthy(file_num)
               /\ start_num <= file_num[1]
               /\ file_num[1] <= end_num
            THEN [files[i] EXCEPT !.file_number = file_num]
            ELSE files[i] ]

\* key=lambda x: x.get('file_number', 0)
SortKey(x) == IF x.file_number = None THEN 0 ELSE x.file_number[1]

\* InsertByKey of a sort that is not stable: an element goes before the
\* elements of equal key
InsertByKey_Unstable(sorted, x) ==
    LET p == Cardinality({ i \in 1 .. Len(sorted) : SortKey(sorted[i]) < SortKey(x) })
    IN  SubSeq(sorted, 1, p) \o << x >> \o SubSeq(sorted, p + 1, Len(sorted))

\* list.sort is stable: an element goes behind every element whose key is not
\* greater than its own
InsertByKey(sorted, x) ==
    LET p == Cardinality({ i \in 1 .. Len(sorted) : SortKey(sorted[i]) <= SortKey(x) })
    IN  SubSeq(sorted, 1, p) \o << x >> \o SubSeq(sorted, p + 1, Len(sorted))

\* the sort left out
SortByFileNumber_Forgotten(files) == files

RECURSIVE SortByFileNumber(_)
SortByFileNumber(files) ==
    IF files = << >> THEN << >>
    ELSE InsertByKey(SortByFileNumber(SubSeq(files, 1, Len(files) - 1)),
                     files[Len(files)])

filter_files_by_range(files, start_num, end_num) ==
    SortByFileNumber(FilterLoop(files, start_num, end_num))

---------------------------------------------------------------------------
(* Inputs *)

\* every string of at most n characters of the set C
StringsUpTo(C, n) == UNION { [1 .. k -> C] : k \in 0 .. n }

\* the names, without ".csv", of the files given to the filter on its own
FilterChars == {"0", "1", "a"}
FilterStems == UNION { [1 .. k -> FilterChars] : k \in {0, 1, 2} }
FilterRecords == { FileInfo("d1", stem \o DotCsv) : stem \in FilterStems }

\* the numbers typed at the two prompts
RangeVals == {0, 1, 10}

---------------------------------------------------------------------------
(* extract_file_number on its own *)

InitInfer ==
    /\ pc = "infer_call"
    /\ fname \in StringsUpTo(Chars, MaxLen)
    /\ fnum = None
    /\ anchors = << >> /\ driver = "none"
    /\ csv_files = << >> /\ start_range = 0 /\ end_range = 0
    /\ filtered_files = << >> /\ refiltered = << >>
    /\ idx = 0 /\ successful = 0 /\ failed = 0
    /\ dir_state = "absent" /\ fs = {}
    /\ http_log = << >> /\ calls = << >> /\ outcomes = << >>

InferCall ==
    /\ pc = "infer_call"
    /\ fnum' = extract_file_number(fname)
    /\ pc' = "infer_return"
    /\ UNCHANGED << fname, anchors, driver, csv_files, start_range, end_range,
                    filtered_files, refiltered, idx, successful, failed,
                    dir_state, fs, http_log, calls, outcomes >>

NextInfer == InferCall

SpecInfer == InitInfer /\ [][NextInfer]_vars

---------------------------------------------------------------------------
(* filter_files_by_range on its own, then on its own output *)

InitFilter ==
    /\ pc = "filter_call"
    /\ csv_files \in StringsUpTo(FilterRecords, MaxRecords)
    /\ start_range \in RangeVals
    /\ end_range \in RangeVals
    /\ fname = << >> /\ fnum = None
    /\ anchors = << >> /\ driver = "none"
    /\ filtered_files = << >> /\ refiltered = << >>
    /\ idx = 0 /\ successful = 0 /\ failed = 0
    /\ dir_state = "absent" /\ fs = {}
    /\ http_log = << >> /\ calls = << >> /\ outcomes = << >>

FilterCall ==
    /\ pc = "filter_call"
    /\ filtered_files' = filter_files_by_range(csv_files, start_range, end_range)
    /\ csv_files' = MarkLoop(csv_files, start_range, end_range)
    /\ pc' = "filter_return"
    /\ UNCHANGED << fname, fnum, anchors, driver, start_range, end_range,
                    refiltered, idx, successful, failed, dir_state, fs,
                    http_log, calls, outcomes >>

FilterAgain ==
    /\ pc = "filter_return"
    /\ refiltered' = filter_files_by_range(filtered_files, start_range, end_range)
    /\ filtered_files' = MarkLoop(filtered_files, start_range, end_range)
    /\ pc' = "filter_again_return"
    /\ UNCHANGED << fname, fnum, anchors, driver, csv_files, start_range,
                    end_range, idx, successful, failed, dir_state, fs,
                    http_log, calls, outcomes >>

NextFilter == FilterCall \/ FilterAgain

SpecFilter == InitFilter /\ [][NextFilter]_vars

---------------------------------------------------------------------------
(* download_file *)

\* response.status_code == 200
HTTP_OK == 200

\* what requests.get and open can do in one call of download_file: the
\* request raises (timeout, connection error, DNS failure) or answers with a
\* status, and open(file_path, 'wb') succeeds or raises.  f.write is taken to
\* write the whole of response.content.
Environments ==
    { [raises |-> TRUE,  status |-> 0,       open_ok |-> TRUE],
      [raises |-> FALSE, status |-> 404,     open_ok |-> TRUE],
      [raises |-> FALSE, status |-> HTTP_OK, open_ok |-> TRUE],
      [raises |-> FALSE, status |-> HTTP_OK, open_ok |-> FALSE] }

\* response.content of the url
Content(url) == << "content", url >>

\* os.path.exists(os.path.join(download_dir, filename))
Exists(files, filename) == \E f \in files : f.name = filename

WriteFile(files, filename, bytes) ==
    { f \in files : f.name # filename } \cup { [name |-> filename, bytes |-> bytes] }

Result(dir, files, requested, printed, ret) ==
    [dir_state |-> dir, fs |-> files, requested |-> requested,
     printed |-> printed, ret |-> ret]

\* what a call of download_file printed and returned, with what the network
\* and the disk did in it: nothing if they were not asked
Outcome(r, env) ==
    [printed |-> r.printed, ret |-> r.ret,
     env |-> [raises  |-> r.requested # << >> /\ env.raises,
              status  |-> IF r.requested # << >> /\ ~ env.raises
                          THEN env.status ELSE 0,
              open_ok |-> r.printed = "Downloaded"]]

\* download_file that asks the server before it looks for the file
download_file_RequestFirst(file_info, dir, files, env) ==
    IF dir = "blocked"
    THEN Result(dir, files, << >>, "Error", FALSE)
    ELSE IF env.raises
    THEN Result("present", files, << file_info.url >>, "Error", FALSE)
    ELSE IF Exists(files, file_info.filename)
    THEN Result("present", files, << file_info.url >>, "AlreadyExists", TRUE)
    ELSE IF env.status = HTTP_OK /\ env.open_ok
    THEN Result("present",
                WriteFile(files, file_info.filename, Content(file_info.url)),
                << file_info.url >>, "Downloaded", TRUE)
    ELSE IF env.status = HTTP_OK
    THEN Result("present", files, << file_info.url >>, "Error", FALSE)
    ELSE Result("present", files, << file_info.url >>, "Failed", FALSE)

\* download_file that writes the body before it looks at the status
download_file_WriteFirst(file_info, dir, files, env) ==
    IF dir = "blocked"
    THEN Result(dir, files, << >>, "Error", FALSE)
    ELSE IF Exists(files, file_info.filename)
    THEN Result("present", files, << >>, "AlreadyExists", TRUE)
    ELSE IF env.raises
    THEN Result("present", files, << file_info.url >>, "Error", FALSE)
    ELSE IF ~ env.open_ok
    THEN Result("present", files, << file_info.url >>, "Error", FALSE)
    ELSE Result("present",
                WriteFile(files, file_info.filename, Content(file_info.url)),
                << file_info.url >>,
                IF env.status = HTTP_OK THEN "Downloaded" ELSE "Failed",
                env.status = HTTP_OK)

\* download_file(file_info) with the directory in state dir holding files:
\* the directory and files afterwards, the url requested if any, the line
\* printed and the value returned.  Every exception is caught and returns
\* False.
download_file(file_info, dir, files, env) ==
    IF dir = "blocked"
    THEN \* os.makedirs raises
         Result(dir, files, << >>, "Error", FALSE)
    ELSE IF Exists(files, file_info.filename)
    THEN Result("present", files, << >>, "AlreadyExists", TRUE)
    ELSE IF env.raises
    THEN \* requests.get raises
         Result("present", files, << file_info.url >>, "Error", FALSE)
    ELSE IF env.status = HTTP_OK
    THEN IF env.open_ok
         THEN Result("present",
                     WriteFile(files, file_info.filename, Content(file_info.url)),
                     << file_info.url >>, "Downloaded", TRUE)
         ELSE \* open raises
              Result("present", files, << file_info.url >>, "Error", FALSE)
    ELSE Result("present", files, << file_info.url >>, "Failed", FALSE)

---------------------------------------------------------------------------
(* main: get_all_filenames, the prompts, the filter, the download loop *)

\* the <a> elements of the page: the href (None, or its directory part and
\* last segment) and whether reading the element raises
Anchor(href, stale) == [href |-> href, stale |-> stale]

PageDirs == {"d1", "d2"}
PageNames ==
    { << "1", "a" >> \o DotCsv,
      << "2" >> \o DotCsv,
      << "a" >> \o DotCsv,
      << "1", "a", ".", "C", "S", "V" >> }

AnchorPool ==
    { Anchor(<< d, n >>, FALSE) : d \in PageDirs, n \in PageNames }
        \cup { Anchor(None, FALSE), Anchor(<< "d1", << "2" >> \o DotCsv >>, TRUE) }

\* the files that may be in the download directory before the run
OldFiles ==
    { [name |-> << "1", "a" >> \o DotCsv, bytes |-> << "old" >>],
      [name |-> << "2" >> \o DotCsv, bytes |-> << "old" >>] }

Init ==
    /\ pc = "main"
    /\ anchors \in StringsUpTo(AnchorPool, MaxLinks)
    /\ driver = "none"
    /\ dir_state \in {"absent", "present", "blocked"}
    /\ fs \in (IF dir_state = "present" THEN SUBSET OldFiles ELSE { {} })
    /\ fname = << >> /\ fnum = None
    /\ csv_files = << >> /\ start_range = 0 /\ end_range = 0
    /\ filtered_files = << >> /\ refiltered = << >>
    /\ idx = 0 /\ successful = 0 /\ failed = 0
    /\ http_log = << >> /\ calls = << >> /\ outcomes = << >>

\* setup_driver: webdriver.Chrome(...) raises; setup_driver returns None,
\* get_all_filenames returns [] and main returns
ChromeFails ==
    /\ pc = "main"
    /\ pc' = "done_no_files"
    /\ UNCHANGED << fname, fnum, anchors, driver, csv_files, start_range,
                    end_range, filtered_files, refiltered, idx, successful,
                    failed, dir_state, fs, http_log, calls, outcomes >>

\* setup_driver: webdriver.Chrome(...) returns the driver
ChromeStarts ==
    /\ pc = "main"
    /\ driver' = "acquired"
    /\ pc' = "execute_script"
    /\ UNCHANGED << fname, fnum, anchors, csv_files, start_range, end_range,
                    filtered_files, refiltered, idx, successful, failed,
                    dir_state, fs, http_log, calls, outcomes >>

\* setup_driver: driver.execute_script raises; the except clause returns
\* None, get_all_filenames returns [] before its try and main returns
ExecuteScriptFails ==
    /\ pc = "execute_script"
    /\ pc' = "done_no_files"
    /\ UNCHANGED << fname, fnum, anchors, driver, csv_files, start_range,
                    end_range, filtered_files, refiltered, idx, successful,
                    failed, dir_state, fs, http_log, calls, outcomes >>

ExecuteScriptReturns ==
    /\ pc = "execute_script"
    /\ pc' = "get"
    /\ UNCHANGED << fname, fnum, anchors, driver, csv_files, start_range,
                    end_range, filtered_files, refiltered, idx, successful,
                    failed, dir_state, fs, http_log, calls, outcomes >>

\* get_all_filenames: driver.get, wait.until or find_elements raises; the
\* except clause returns [], the finally clause quits the driver, main returns
ScrapeFails ==
    /\ pc \in {"get", "wait", "find"}
    /\ driver' = "released"
    /\ pc' = "done_no_files"
    /\ UNCHANGED << fname, fnum, anchors, csv_files, start_range, end_range,
                    filtered_files, refiltered, idx, successful, failed,
                    dir_state, fs, http_log, calls, outcomes >>

\* get_all_filenames: driver.get, then wait.until, then find_elements return
ScrapeStep ==
    /\ pc \in {"get", "wait", "find"}
    /\ pc' = (CASE pc = "get" -> "wait" [] pc = "wait" -> "find"
                [] pc = "find" -> "links")
    /\ UNCHANGED << fname, fnum, anchors, driver, csv_files, start_range,
                    end_range, filtered_files, refiltered, idx, successful,
                    failed, dir_state, fs, http_log, calls, outcomes >>

\* get_all_filenames: one iteration of "for link in links"
VisitLink ==
    /\ pc = "links"
    /\ anchors # << >>
    /\ LET link == Head(anchors)
       IN  csv_files' =
              IF /\ ~ link.stale
                 /\ link.href # None
                 /\ EndsWith(link.href[2], DotCsv)
              THEN Append(csv_files, FileInfo(link.href[1], link.href[2]))
              ELSE csv_files
    /\ anchors' = Tail(anchors)
    /\ UNCHANGED << pc, fname, fnum, driver, start_range, end_range,
                    filtered_files, refiltered, idx, successful, failed,
                    dir_state, fs, http_log, calls, outcomes >>

\* get_all_filenames returns csv_files through the finally clause; main
\* returns if the list is empty
ScrapeReturns ==
    /\ pc = "links"
    /\ anchors = << >>
    /\ driver' = "released"
    /\ pc' = IF csv_files = << >> THEN "done_no_files" ELSE "input_range"
    /\ UNCHANGED << fname, fnum, anchors, csv_files, start_range, end_range,
                    filtered_files, refiltered, idx, successful, failed,
                    dir_state, fs, http_log, calls, outcomes >>

\* main: int(input(...)) raises ValueError, which nothing catches
InputNotANumber ==
    /\ pc = "input_range"
    /\ pc' = "raised"
    /\ UNCHANGED << fname, fnum, anchors, driver, csv_files, start_range,
                    end_range, filtered_files, refiltered, idx, successful,
                    failed, dir_state, fs, http_log, calls, outcomes >>

\* main: the two prompts and filter_files_by_range; main returns if the
\* filtered list is empty
InputRange ==
    /\ pc = "input_range"
    /\ \E s \in RangeVals, e \in RangeVals :
          /\ start_range' = s
          /\ end_range' = e
          /\ filtered_files' = filter_files_by_range(csv_files, s, e)
          /\ csv_files' = MarkLoop(csv_files, s, e)
    /\ pc' = IF filtered_files' = << >> THEN "done_none_in_range" ELSE "confirm"
    /\ UNCHANGED << fname, fnum, anchors, driver, refiltered, idx, successful,
                    failed, dir_state, fs, http_log, calls, outcomes >>

\* main: the confirmation prompt
Confirm ==
    /\ pc = "confirm"
    /\ \E confirm \in {"y", "n"} :
          pc' = IF confirm # "y" THEN "done_cancelled" ELSE "download"
    /\ successful' = 0
    /\ failed' = 0
    /\ UNCHANGED << fname, fnum, anchors, driver, csv_files, start_range,
                    end_range, filtered_files, refiltered, idx, dir_state, fs,
                    http_log, calls, outcomes >>

\* the download loop that leaves at the first file that fails
DownloadNext_StopAtFailure ==
    /\ pc = "download"
    /\ idx < Len(filtered_files)
    /\ \E env \in Environments :
          LET file_info == filtered_files[idx + 1]
              r == download_file(file_info, dir_state, fs, env)
          IN  /\ calls' = Append(calls, file_info)
              /\ outcomes' = Append(outcomes, Outcome(r, env))
              /\ http_log' = http_log \o r.requested
              /\ dir_state' = r.dir_state
              /\ fs' = r.fs
              /\ successful' = IF r.ret THEN successful + 1 ELSE successful
              /\ failed' = IF r.ret THEN failed ELSE failed + 1
              /\ idx' = IF r.ret THEN idx + 1 ELSE Len(filtered_files)
    /\ UNCHANGED << pc, fname, fnum, anchors, driver, csv_files, start_range,
                    end_range, filtered_files, refiltered >>

\* main: one iteration of "for i, file_info in enumerate(filtered_files, 1)"
DownloadNext ==
    /\ pc = "download"
    /\ idx < Len(filtered_files)
    /\ \E env \in Environments :
          LET file_info == filtered_files[idx + 1]
              r == download_file(file_info, dir_state, fs, env)
          IN  /\ calls' = Append(calls, file_info)
              /\ outcomes' = Append(outcomes, Outcome(r, env))
              /\ http_log' = http_log \o r.requested
              /\ dir_state' = r.dir_state
              /\ fs' = r.fs
              /\ successful' = IF r.ret THEN successful + 1 ELSE successful
              /\ failed' = IF r.ret THEN failed ELSE failed + 1
    /\ idx' = idx + 1
    /\ UNCHANGED << pc, fname, fnum, anchors, driver, csv_files, start_range,
                    end_range, filtered_files, refiltered >>

\* main: the loop is over, the summary is printed
Summary ==
    /\ pc = "download"
    /\ idx = Len(filtered_files)
    /\ pc' = "done_summary"
    /\ UNCHANGED << fname, fnum, anchors, driver, csv_files, start_range,
                    end_range, filtered_files, refiltered, idx, successful,
                    failed, dir_state, fs, http_log, calls, outcomes >>

Next ==
    \/ ChromeFails
    \/ ChromeStarts
    \/ ExecuteScriptFails
    \/ ExecuteScriptReturns
    \/ ScrapeFails
    \/ ScrapeStep
    \/ VisitLink
    \/ ScrapeReturns
    \/ InputNotANumber
    \/ InputRange
    \/ Confirm
    \/ DownloadNext
    \/ Summary

Spec == Init /\ [][Next]_vars

---------------------------------------------------------------------------
(* What the claims speak of, said without the code's own helpers *)

\* the number of digits the string begins with
LeadLen(s) ==
    Cardinality({ k \in 1 .. Len(s) : \A i \in 1 .. k : s[i] \in Digits })

\* the string begins with one or more digits immediately followed by a letter
BeginsDigitsLetter(s) ==
    /\ LeadLen(s) >= 1
    /\ LeadLen(s) < Len(s)
    /\ s[LeadLen(s) + 1] \in Letters

RECURSIVE Pow10(_)
Pow10(n) == IF n = 0 THEN 1 ELSE 10 * Pow10(n - 1)

\* the decimal value of the digits s[i] .. s[j]
RECURSIVE DecimalValue(_, _, _)
DecimalValue(s, i, j) ==
    IF i > j THEN 0
    ELSE DigitVal(s[i]) * Pow10(j - i) + DecimalValue(s, i + 1, j)

\* the maximal digit runs of s, each as << first position, last position >>
DigitRuns(s) ==
    { r \in (1 .. Len(s)) \X (1 .. Len(s)) :
        /\ r[1] <= r[2]
        /\ \A i \in r[1] .. r[2] : s[i] \in Digits
        /\ (r[1] = 1 \/ s[r[1] - 1] \notin Digits)
        /\ (r[2] = Len(s) \/ s[r[2] + 1] \notin Digits) }

QualifyingRuns(s) ==
    { r \in DigitRuns(s) :
        /\ 1 <= DecimalValue(s, r[1], r[2])
        /\ DecimalValue(s, r[1], r[2]) <= 1000 }

\* the first qualifying run's value, or absent
FirstQualifying(s) ==
    IF QualifyingRuns(s) = {} THEN None
    ELSE LET r == CHOOSE q \in QualifyingRuns(s) :
                      \A o \in QualifyingRuns(s) : q[1] <= o[1]
         IN  Some(DecimalValue(s, r[1], r[2]))

\* the list is in ascending order of the attached numbers, each of them
\* present and within [lo, hi]
AscendingWithin(files, lo, hi) ==
    /\ \A i \in 1 .. Len(files) :
          /\ files[i].file_number # None
          /\ lo <= files[i].file_number[1]
          /\ files[i].file_number[1] <= hi
    /\ \A i \in 1 .. Len(files) : \A j \in 1 .. Len(files) :
          i < j => files[i].file_number[1] <= files[j].file_number[1]

\* how many elements of the list are the link (filename, url)
Occurrences(files, filename, url) ==
    Cardinality({ k \in 1 .. Len(files) :
                    files[k].filename = filename /\ files[k].url = url })

---------------------------------------------------------------------------
(* Claims about extract_file_number, under SpecInfer *)

\* C1: for a filename that begins with digits immediately followed by a
\* letter, extract_file_number returns the value of the leading digit run,
\* whatever its magnitude and whatever digit runs follow.
C1_LeadingRun ==
    (pc = "infer_return" /\ BeginsDigitsLetter(fname))
        => fnum = Some(DecimalValue(fname, 1, LeadLen(fname)))

\* a leading run above 1000, a letter, and another digit run behind it
C1_Witness ==
    /\ pc = "infer_return"
    /\ BeginsDigitsLetter(fname)
    /\ Cardinality(DigitRuns(fname)) >= 2
    /\ fnum # None
    /\ fnum[1] > 1000

\* C2: for any other filename, extract_file_number returns the first maximal
\* digit run, from the left, whose value lies in [1, 1000], and None when
\* there is none.
C2_FirstRunInRange ==
    (pc = "infer_return" /\ ~ BeginsDigitsLetter(fname))
        => fnum = FirstQualifying(fname)

\* a run is passed over because it is 0 or above 1000, a later one is returned
C2_Witness ==
    /\ pc = "infer_return"
    /\ ~ BeginsDigitsLetter(fname)
    /\ fnum # None
    /\ \E r \in DigitRuns(fname) \ QualifyingRuns(fname) :
          DecimalValue(fname, r[1], r[2]) > 1000

---------------------------------------------------------------------------
(* Claims about filter_files_by_range, under SpecFilter *)

\* C3: the output of filter_files_by_range is sorted ascending by the
\* attached number, and every output record carries a number within
\* [start, end] that is the number inferred from its filename.
C3_SortedWithinRange ==
    /\ pc \in {"filter_return", "filter_again_return"} =>
          /\ AscendingWithin(filtered_files, start_range, end_range)
          /\ \A i \in 1 .. Len(filtered_files) :
                filtered_files[i].file_number =
                    extract_file_number(filtered_files[i].filename)
    /\ pc = "filter_again_return" =>
          AscendingWithin(refiltered, start_range, end_range)

\* records were discarded, and the survivors had to be reordered
C3_Witness ==
    /\ pc = "filter_return"
    /\ Len(filtered_files) >= 2
    /\ Len(filtered_files) < Len(csv_files)
    /\ \E i \in 1 .. Len(csv_files) : \E j \in 1 .. Len(csv_files) :
          /\ i < j
          /\ csv_files[i].file_number # None
          /\ csv_files[j].file_number # None
          /\ csv_files[i].file_number[1] > csv_files[j].file_number[1]

\* C4: every input record whose inferred number is present and within
\* [start, end], also when start <= 0, appears in the output once per input
\* occurrence with that number attached; the records 01a-jan.csv,
\* 15b-feb.csv, 246a-sep.csv, 387a-oct.csv and the range (246, 386) give
\* exactly 246a-sep.csv with number 246.
C4_KeepsEveryRecordInRange ==
    /\ pc = "filter_return" =>
          \A i \in 1 .. Len(csv_files) :
             LET n == extract_file_number(csv_files[i].filename)
             IN  (n # None /\ start_range <= n[1] /\ n[1] <= end_range)
                 => /\ Occurrences(filtered_files, csv_files[i].filename,
                                   csv_files[i].url)
                        = Occurrences(csv_files, csv_files[i].filename,
                                      csv_files[i].url)
                    /\ \A k \in 1 .. Len(filtered_files) :
                          filtered_files[k].filename = csv_files[i].filename
                              => filtered_files[k].file_number = n
    /\ LET jan == << "0", "1", "a", "-", "j", "a", "n" >> \o DotCsv
           feb == << "1", "5", "b", "-", "f", "e", "b" >> \o DotCsv
           sep == << "2", "4", "6", "a", "-", "s", "e", "p" >> \o DotCsv
           oct == << "3", "8", "7", "a", "-", "o", "c", "t" >> \o DotCsv
       IN  filter_files_by_range(
               << FileInfo("d1", jan), FileInfo("d1", feb),
                  FileInfo("d1", sep), FileInfo("d1", oct) >>, 246, 386)
           = << [FileInfo("d1", sep) EXCEPT !.file_number = Some(246)] >>

\* C6: filter_files_by_range applied to its own output with the same range
\* returns the same records in the same order with the same numbers, and
\* leaves that output as it was.
C6_Idempotent ==
    pc = "filter_again_return" =>
        /\ refiltered = filtered_files
        /\ filtered_files =
              filter_files_by_range(csv_files, start_range, end_range)

\* an output with two different records of equal number was filtered again
C6_Witness ==
    /\ pc = "filter_again_return"
    /\ \E i \in 1 .. Len(refiltered) : \E j \in 1 .. Len(refiltered) :
          /\ i < j
          /\ refiltered[i].file_number = refiltered[j].file_number
          /\ refiltered[i].filename # refiltered[j].filename
    /\ \E i \in 1 .. Len(refiltered) : \E j \in 1 .. Len(refiltered) :
          refiltered[i].file_number # refiltered[j].file_number

---------------------------------------------------------------------------
(* Claims about main and download_file, under Spec *)

\* the step is a call of download_file by main, for the next filtered record
IsDownloadCall == pc = "download" /\ idx < Len(filtered_files) /\ idx' = idx + 1

MadeRequest == Len(http_log') = Len(http_log) + 1

LastOutcome == outcomes'[Len(outcomes')]

\* C5 as stated: the download order is strictly ascending by sequence
\* number, no two consecutive downloaded records have equal numbers.
C5_StrictlyAscending ==
    \A i \in 1 .. (Len(calls) - 1) :
        calls[i].file_number[1] < calls[i + 1].file_number[1]

\* C5 as amended: the download order is ascending by sequence number, each
\* downloaded record's number being greater than or equal to its
\* predecessor's.
C5_Ascending ==
    \A i \in 1 .. (Len(calls) - 1) :
        /\ calls[i].file_number # None
        /\ calls[i + 1].file_number # None
        /\ calls[i].file_number[1] <= calls[i + 1].file_number[1]

\* two links of equal number were downloaded one after the other, then a
\* link of greater number
C5_Witness ==
    /\ Len(calls) = 3
    /\ calls[1].file_number = calls[2].file_number
    /\ calls[1].url # calls[2].url
    /\ calls[2].file_number[1] < calls[3].file_number[1]

\* C7: when the file already exists at the target path, download_file
\* issues no HTTP request, leaves the files as they are and returns the
\* outcome "already exists".
C7_SkipExisting ==
    [][ (IsDownloadCall /\ Exists(fs, filtered_files[idx + 1].filename))
            => /\ http_log' = http_log
               /\ fs' = fs
               /\ LastOutcome.printed = "AlreadyExists"
               /\ LastOutcome.ret = TRUE ]_vars

\* a call was skipped and the old bytes are still there
C7_Witness ==
    \E i \in 1 .. Len(outcomes) :
        /\ outcomes[i].printed = "AlreadyExists"
        /\ [name |-> calls[i].filename, bytes |-> << "old" >>] \in fs
        /\ Len(http_log) < Len(outcomes)

\* C8: when the file does not exist yet, download_file writes it only on
\* status 200, with the whole response body and the outcome success; on
\* any other status and on a transport failure it returns failure, the
\* call returns to main, and no file is at the target path afterwards.
C8_WriteOnlyOn200 ==
    [][ (IsDownloadCall /\ ~ Exists(fs, filtered_files[idx + 1].filename))
            => LET file_info == filtered_files[idx + 1]
                   o == LastOutcome
                   written == [name |-> file_info.filename,
                               bytes |-> Content(file_info.url)]
               IN  /\ pc' = "download"
                   /\ Exists(fs', file_info.filename)
                         => /\ MadeRequest
                            /\ ~ o.env.raises /\ o.env.status = 200
                            /\ fs' = fs \cup {written}
                            /\ o.printed = "Downloaded" /\ o.ret
                   /\ (MadeRequest /\ (o.env.raises \/ o.env.status # 200))
                         => /\ ~ o.ret
                            /\ o.printed = (IF o.env.raises THEN "Error" ELSE "Failed")
                            /\ fs' = fs
                   /\ (MadeRequest /\ ~ o.env.raises /\ o.env.status = 200)
                         => \/ /\ fs' = fs \cup {written}
                               /\ o.printed = "Downloaded" /\ o.ret
                            \/ /\ fs' = fs
                               /\ o.printed = "Error" /\ ~ o.ret
                   /\ dir_state # "blocked" => MadeRequest ]_vars

\* one file was written on status 200, one call failed on another status
\* and one on a transport failure, and the failed ones left no file
C8_Witness ==
    /\ \E i \in 1 .. Len(outcomes) :
          /\ outcomes[i].printed = "Downloaded"
          /\ [name |-> calls[i].filename, bytes |-> Content(calls[i].url)] \in fs
    /\ \E i \in 1 .. Len(outcomes) :
          /\ outcomes[i].printed = "Failed"
          /\ ~ Exists(fs, calls[i].filename)
    /\ \E i \in 1 .. Len(outcomes) :
          /\ outcomes[i].printed = "Error"
          /\ outcomes[i].env.raises
          /\ dir_state = "present"

\* C9: once the Chrome webdriver has been created it is released on every
\* exit path from get_all_filenames.
C9_DriverReleased ==
    pc \notin {"main", "execute_script", "get", "wait", "find", "links"}
        => driver # "acquired"

\* C10: after the confirmation main calls download_file once for each
\* filtered record, in the filtered order, whatever the earlier outcomes,
\* and the two counts of the summary add up to the number of filtered
\* records.
C10_EveryFileOnce ==
    /\ pc \in {"download", "done_summary"} =>
          /\ calls = SubSeq(filtered_files, 1, idx)
          /\ Len(outcomes) = idx
          /\ successful = Cardinality({ i \in 1 .. idx : outcomes[i].ret })
          /\ failed = Cardinality({ i \in 1 .. idx : ~ outcomes[i].ret })
    /\ pc = "done_summary" =>
          /\ calls = filtered_files
          /\ successful + failed = Len(filtered_files)

\* the batch went on after a failed status and after a transport failure
C10_Witness ==
    /\ pc = "done_summary"
    /\ Len(filtered_files) = 3
    /\ outcomes[1].printed = "Failed"
    /\ outcomes[2].printed = "Error"
    /\ outcomes[3].printed = "Downloaded"
    /\ successful = 1 /\ failed = 2

====
